---- MODULE Spec2Model ----
(***************************************************************************)
(* Rogue Launch Control (src/launch_control.py): the telemetry pipeline of *)
(* LaunchControlGUI.  Three threads share the object's fields without any  *)
(* lock: the serial reader (read_serial_data), the sampler (simulate_data) *)
(* and the Tk main loop, which runs the render callbacks (update_display)  *)
(* and the window-close handler (on_closing).  Every thread is modelled    *)
(* statement by statement, so that each interleaving CPython's thread      *)
(* switching allows between two statements is a behaviour of the model.    *)
(*                                                                         *)
(* Encoding.  A Python value that may be None is a sequence of length at   *)
(* most one: None is << >> and the value x is <<x>>.  A text line is the   *)
(* sequence of its comma-separated fields, each field a string.  The clock *)
(* reading time.time() - start_time of a sampler iteration is the index of *)
(* that iteration (the sampler sleeps 100 ms between two readings, so the  *)
(* readings are strictly increasing).  Floats are integers.                *)
(***************************************************************************)
EXTENDS Integers, Sequences, FiniteSets, TLC

(***************************************************************************)
(* Program constants and bounds of the model.                              *)
(***************************************************************************)
\* "Keep only last 100 data points" (lines 466-469).
N == 100
\* The number the SerialException handler stores in the numeric fields.
ErrorValue == -1
\* How many sampler iterations one behaviour runs past its initial state.
MaxTicks == 2
\* The iterations already completed in the warm initial state.
WarmTicks == N - 1

None == << >>
Some(x) == <<x>>

VARIABLES
    \* fields of LaunchControlGUI (lines 79-95)
    simulation_running, current_pressure, current_altitude, temperature,
    gps_valid, serial_error, apogee, time_data, pressure_data, height_data,
    \* read_serial_data: position, bytes returned by readline, the local
    \* `line`, ser.is_open, number of serial.Serial() calls, the exception
    \* that ended the thread ("" when none)
    pc_r, rx, line, port_open, opens, exc_r,
    \* simulate_data: position, the local `height`, iterations started,
    \* the exception that ended the thread
    pc_s, height, ticks, exc_s,
    \* Tk main loop: position, callbacks queued by root.after, the local
    \* len(self.height_data) of line 497 (0 outside the callback), the
    \* velocity last computed, what the
    \* data labels and the status lights show, the exception Tk caught in
    \* the running callback
    pc_u, pending, ui_hlen, velocity, shown, lights, ui_exc,
    \* history: everything the sampler ever appended, never truncated
    all_time, all_pressure, all_height

shared == <<simulation_running, current_pressure, current_altitude,
            temperature, gps_valid, serial_error>>
hist == <<apogee, time_data, pressure_data, height_data>>
rdr == <<pc_r, rx, line, port_open, opens, exc_r>>
smp == <<pc_s, height, ticks, exc_s>>
ui == <<pc_u, pending, ui_hlen, velocity, shown, lights, ui_exc>>
ghost == <<all_time, all_pressure, all_height>>
vars == <<shared, hist, rdr, smp, ui, ghost>>

(***************************************************************************)
(* The serial wire.  readline() returns one of these byte lines.           *)
(***************************************************************************)
\* Bytes that are not valid UTF-8.
Undecodable == <<"0xff">>
\* Only a newline or white space: the text is empty after strip().
EmptyLine == << >>
\* Three numeric fields.
WellFormedLines == { <<"12", "100", "22">> }
\* A field that is no number, too few fields, too many fields.
BadFieldLines == { <<"12", "bad", "22">>, <<"bad", "line">>,
                   <<"12", "100", "22", "7">> }
MalformedLines == BadFieldLines \cup {Undecodable, EmptyLine}
WireLines == WellFormedLines \cup MalformedLines

\* bytes.decode('utf-8').strip() (line 365): None stands for UnicodeDecodeError.
decode(b) == IF b = Undecodable THEN None ELSE Some(b)

\* float(s) (lines 375-377): None stands for ValueError.
float(s) ==
    CASE s = "12" -> Some(12)
      [] s = "100" -> Some(100)
      [] s = "22" -> Some(22)
      [] s = "7" -> Some(7)
      [] OTHER -> None

\* The name every fix of line 371 would bind: the text just read.
data_str_bound(l) == Some(l)
\* Evaluating the name data_str (line 371).  Nothing in the file assigns it:
\* not as a local of read_serial_data, not as a module global.  The lookup
\* raises NameError, for which None stands; otherwise the result is the
\* text the name is bound to.
data_str(l) == None

\* The handler only prints the exception and stores no message.
NoErrorMessage == None
\* self.serial_error of line 403.
SerialErrorMessage == Some("Receiver Device Not Found!")

(***************************************************************************)
(* Initial states.  InitConstructed is the object right after __init__     *)
(* (lines 79-100): the fields set, the flag raised by setup_serial_reader  *)
(* and both threads started.  InitWarm is the state the program is in      *)
(* after WarmTicks sampler iterations during which the port was opened,    *)
(* nothing arrived on the wire and the main loop ran every queued render:  *)
(* it puts the histories one entry below capacity.                         *)
(***************************************************************************)
InitConstructed ==
    /\ simulation_running = TRUE
    /\ current_pressure = Some(0)
    /\ current_altitude = Some(0)
    /\ temperature = Some(25)
    /\ gps_valid = FALSE
    /\ serial_error = None
    /\ apogee = 0
    /\ time_data = << >>
    /\ pressure_data = << >>
    /\ height_data = << >>
    /\ pc_r = "r360" /\ rx = << >> /\ line = None
    /\ port_open = FALSE /\ opens = 0 /\ exc_r = ""
    /\ pc_s = "s429" /\ height = Some(0) /\ ticks = 0 /\ exc_s = ""
    /\ pc_u = "idle" /\ pending = 0 /\ ui_hlen = 0 /\ velocity = 0
    /\ shown = "" /\ lights = "" /\ ui_exc = ""
    /\ all_time = << >> /\ all_pressure = << >> /\ all_height = << >>

InitWarm ==
    /\ simulation_running = TRUE
    /\ current_pressure = Some(0)
    /\ current_altitude = Some(0)
    /\ temperature = Some(25)
    /\ gps_valid = FALSE
    /\ serial_error = None
    /\ apogee = 0
    /\ time_data = [i \in 1..WarmTicks |-> i]
    /\ pressure_data = [i \in 1..WarmTicks |-> Some(0)]
    /\ height_data = [i \in 1..WarmTicks |-> Some(0)]
    /\ pc_r = "r361" /\ rx = << >> /\ line = None
    /\ port_open = TRUE /\ opens = 1 /\ exc_r = ""
    /\ pc_s = "s429" /\ height = Some(0) /\ ticks = WarmTicks /\ exc_s = ""
    /\ pc_u = "idle" /\ pending = 0 /\ ui_hlen = 0 /\ velocity = 0
    /\ shown = "ok" /\ lights = "ok" /\ ui_exc = ""
    /\ all_time = [i \in 1..WarmTicks |-> i]
    /\ all_pressure = [i \in 1..WarmTicks |-> Some(0)]
    /\ all_height = [i \in 1..WarmTicks |-> Some(0)]

Init == InitConstructed \/ InitWarm

\* `while True`: a loop that never reads the stop flag.
LoopForever == TRUE
\* The loop condition of lines 361 and 429.
LoopCondition == simulation_running

(***************************************************************************)
(* read_serial_data (lines 352-411), the serial reader thread.             *)
(***************************************************************************)
\* Line 360: serial.Serial(PORT, BAUD_RATE, timeout=1) opens the port or
\* raises SerialException before `ser` is bound.
ReadSerialOpen ==
    /\ pc_r = "r360"
    /\ opens' = opens + 1
    /\ \/ port_open' = TRUE /\ pc_r' = "r361"
       \/ port_open' = port_open /\ pc_r' = "r403"
    /\ UNCHANGED <<rx, line, exc_r, shared, hist, smp, ui, ghost>>

\* Line 361: while self.simulation_running.
ReadSerialLoop ==
    /\ pc_r = "r361"
    /\ pc_r' = IF LoopCondition THEN "r362" ELSE "r408"
    /\ UNCHANGED <<rx, line, port_open, opens, exc_r, shared, hist, smp, ui, ghost>>

\* Lines 362, 398-400: ser.in_waiting is positive, or it is 0 and the thread
\* sleeps 10 ms, or the device is gone and the property raises SerialException.
ReadSerialInWaiting ==
    /\ pc_r = "r362"
    /\ \/ pc_r' = "r365"
       \/ pc_r' = "r361"
       \/ pc_r' = "r403"
    /\ UNCHANGED <<rx, line, port_open, opens, exc_r, shared, hist, smp, ui, ghost>>

\* Line 365, ser.readline(): some line arrives, or the read raises
\* SerialException, which the inner except clause does not catch.
ReadSerialReadline ==
    /\ pc_r = "r365"
    /\ \/ \E b \in WireLines : rx' = b /\ pc_r' = "r365d"
       \/ rx' = rx /\ pc_r' = "r403"
    /\ UNCHANGED <<line, port_open, opens, exc_r, shared, hist, smp, ui, ghost>>

\* Lines 365-397 for the bytes rx that readline returned.
\*  - decode raises UnicodeDecodeError: the handler of line 396 prints
\*    `line`; when no earlier iteration bound it, that print raises
\*    UnboundLocalError, which no clause catches.
\*  - the text is empty: `if line` skips the block.
\*  - else line 371 evaluates data_str; NameError is caught neither by
\*    line 396 nor by line 401 and ends the thread through `finally`.
\*  - with data_str bound: three fields are converted and stored one by one
\*    (lines 375-377), a ValueError leaving the fields already stored; any
\*    other field count stores None in all three (lines 389-393).
ReadSerialProcess ==
    /\ pc_r = "r365d"
    /\ LET d == decode(rx) IN
       IF d = None
       THEN /\ IF line = None
               THEN exc_r' = "UnboundLocalError" /\ pc_r' = "r408"
               ELSE exc_r' = exc_r /\ pc_r' = "r361"
            /\ UNCHANGED <<line, shared>>
       ELSE LET l == d[1] IN
            /\ line' = Some(l)
            /\ IF l = << >>
               THEN /\ pc_r' = "r361"
                    /\ UNCHANGED <<exc_r, shared>>
               ELSE IF data_str(l) = None
               THEN /\ exc_r' = "NameError"
                    /\ pc_r' = "r408"
                    /\ UNCHANGED shared
               ELSE LET values == data_str(l)[1] IN
                    /\ pc_r' = "r361"
                    /\ exc_r' = exc_r
                    /\ simulation_running' = simulation_running
                    /\ IF Len(values) = 3
                       THEN LET p == float(values[1])
                                a == float(values[2])
                                t == float(values[3])
                                okp == p # None
                                oka == okp /\ a # None
                                okt == oka /\ t # None
                            IN  /\ current_pressure' =
                                      IF okp THEN p ELSE current_pressure
                                /\ current_altitude' =
                                      IF oka THEN a ELSE current_altitude
                                /\ temperature' = IF okt THEN t ELSE temperature
                                /\ gps_valid' = IF okt THEN TRUE ELSE gps_valid
                                /\ serial_error' =
                                      IF okt THEN None ELSE serial_error
                       ELSE /\ current_pressure' = None
                            /\ current_altitude' = None
                            /\ temperature' = None
                            /\ serial_error' = None
                            /\ gps_valid' = gps_valid
    /\ UNCHANGED <<rx, port_open, opens, hist, smp, ui, ghost>>

\* Lines 401-403: the SerialException handler sets the error message.
ReadSerialError403 ==
    /\ pc_r = "r403"
    /\ serial_error' = SerialErrorMessage
    /\ pc_r' = "r405"
    /\ UNCHANGED <<simulation_running, current_pressure, current_altitude,
                   temperature, gps_valid>>
    /\ UNCHANGED <<rx, line, port_open, opens, exc_r, hist, smp, ui, ghost>>

\* Line 405.
ReadSerialError405 ==
    /\ pc_r = "r405"
    /\ current_pressure' = Some(ErrorValue)
    /\ pc_r' = "r406"
    /\ UNCHANGED <<simulation_running, current_altitude, temperature,
                   gps_valid, serial_error>>
    /\ UNCHANGED <<rx, line, port_open, opens, exc_r, hist, smp, ui, ghost>>

\* Line 406.
ReadSerialError406 ==
    /\ pc_r = "r406"
    /\ current_altitude' = Some(ErrorValue)
    /\ pc_r' = "r407"
    /\ UNCHANGED <<simulation_running, current_pressure, temperature,
                   gps_valid, serial_error>>
    /\ UNCHANGED <<rx, line, port_open, opens, exc_r, hist, smp, ui, ghost>>

\* Line 407.
ReadSerialError407 ==
    /\ pc_r = "r407"
    /\ temperature' = Some(ErrorValue)
    /\ pc_r' = "r408"
    /\ UNCHANGED <<simulation_running, current_pressure, current_altitude,
                   gps_valid, serial_error>>
    /\ UNCHANGED <<rx, line, port_open, opens, exc_r, hist, smp, ui, ghost>>

\* ser.close() placed after the loop instead of in `finally`: an exception
\* that leaves the try block skips it.
ReadSerialCloseAfterLoop ==
    /\ pc_r = "r408"
    /\ port_open' = IF exc_r = "" THEN FALSE ELSE port_open
    /\ pc_r' = "done"
    /\ UNCHANGED <<rx, line, opens, exc_r, shared, hist, smp, ui, ghost>>

\* Lines 408-411: finally closes the port when `ser` is bound and open, and
\* the thread ends (an exception still pending is recorded in exc_r).
ReadSerialFinally ==
    /\ pc_r = "r408"
    /\ port_open' = FALSE
    /\ pc_r' = "done"
    /\ UNCHANGED <<rx, line, opens, exc_r, shared, hist, smp, ui, ghost>>

ReadSerialData ==
    \/ ReadSerialOpen
    \/ ReadSerialLoop
    \/ ReadSerialInWaiting
    \/ ReadSerialReadline
    \/ ReadSerialProcess
    \/ ReadSerialError403
    \/ ReadSerialError405
    \/ ReadSerialError406
    \/ ReadSerialError407
    \/ ReadSerialFinally

(***************************************************************************)
(* simulate_data (lines 421-474), the sampler thread.                      *)
(***************************************************************************)
\* A behaviour runs at most MaxTicks iterations past its initial state.
TickAllowed ==
    \/ ticks < MaxTicks
    \/ ticks >= WarmTicks /\ ticks < WarmTicks + MaxTicks

\* Lines 457-458 with `>` turned into an unconditional store.
ApogeeOverwrite(h, a) == h
\* Lines 457-458: if height > self.apogee: self.apogee = height.
NewApogee(h, a) == IF h > a THEN h ELSE a

\* s[:N], the first N entries.
KeepFirst(s) == IF Len(s) > N THEN SubSeq(s, 1, N) ELSE s
\* s[-N:] (lines 467-469): the last N entries, all of s when it is shorter.
KeepLast(s) == IF Len(s) > N THEN SubSeq(s, Len(s) - N + 1, Len(s)) ELSE s

\* Lines 429-430: the loop test, then the clock reading of this iteration.
SimulateLoop ==
    /\ pc_s = "s429"
    /\ IF LoopCondition
       THEN /\ TickAllowed
            /\ ticks' = ticks + 1
            /\ pc_s' = "s450"
       ELSE /\ ticks' = ticks
            /\ pc_s' = "done"
    /\ UNCHANGED <<height, exc_s, shared, hist, rdr, ui, ghost>>

\* A sampler that produces the altitude itself and stores it in the shared
\* field before using it.
SimulateOwnAltitude ==
    /\ pc_s = "s450"
    /\ current_altitude' = Some(ticks)
    /\ height' = Some(ticks)
    /\ pc_s' = "s457"
    /\ UNCHANGED <<simulation_running, current_pressure, temperature,
                   gps_valid, serial_error>>
    /\ UNCHANGED <<ticks, exc_s, hist, rdr, ui, ghost>>

\* Line 450: height = self.current_altitude.
SimulateReadAltitude ==
    /\ pc_s = "s450"
    /\ height' = current_altitude
    /\ pc_s' = "s457"
    /\ UNCHANGED <<ticks, exc_s, shared, hist, rdr, ui, ghost>>

\* Lines 457-458.  None > int raises TypeError, which ends the thread.
SimulateApogee ==
    /\ pc_s = "s457"
    /\ IF height = None
       THEN /\ exc_s' = "TypeError"
            /\ pc_s' = "done"
            /\ apogee' = apogee
       ELSE /\ apogee' = NewApogee(height[1], apogee)
            /\ pc_s' = "s461"
            /\ exc_s' = exc_s
    /\ UNCHANGED <<height, ticks, time_data, pressure_data, height_data,
                   shared, rdr, ui, ghost>>

\* Line 461.
SimulateAppendTime ==
    /\ pc_s = "s461"
    /\ time_data' = Append(time_data, ticks)
    /\ all_time' = Append(all_time, ticks)
    /\ pc_s' = "s462"
    /\ UNCHANGED <<height, ticks, exc_s, apogee, pressure_data, height_data,
                   all_pressure, all_height, shared, rdr, ui>>

\* Line 462.
SimulateAppendPressure ==
    /\ pc_s = "s462"
    /\ pressure_data' = Append(pressure_data, current_pressure)
    /\ all_pressure' = Append(all_pressure, current_pressure)
    /\ pc_s' = "s463"
    /\ UNCHANGED <<height, ticks, exc_s, apogee, time_data, height_data,
                   all_time, all_height, shared, rdr, ui>>

\* Line 463.
SimulateAppendHeight ==
    /\ pc_s = "s463"
    /\ height_data' = Append(height_data, height)
    /\ all_height' = Append(all_height, height)
    /\ pc_s' = "s466"
    /\ UNCHANGED <<height, ticks, exc_s, apogee, time_data, pressure_data,
                   all_time, all_pressure, shared, rdr, ui>>

\* Line 466: if len(self.time_data) > 100.
SimulateCheckLength ==
    /\ pc_s = "s466"
    /\ pc_s' = IF Len(time_data) > N THEN "s467" ELSE "s472"
    /\ UNCHANGED <<height, ticks, exc_s, shared, hist, rdr, ui, ghost>>

\* Line 467.
SimulateKeepTime ==
    /\ pc_s = "s467"
    /\ time_data' = KeepLast(time_data)
    /\ pc_s' = "s468"
    /\ UNCHANGED <<height, ticks, exc_s, apogee, pressure_data, height_data,
                   shared, rdr, ui, ghost>>

\* Line 468.
SimulateKeepPressure ==
    /\ pc_s = "s468"
    /\ pressure_data' = KeepLast(pressure_data)
    /\ pc_s' = "s469"
    /\ UNCHANGED <<height, ticks, exc_s, apogee, time_data, height_data,
                   shared, rdr, ui, ghost>>

\* Line 469.
SimulateKeepHeight ==
    /\ pc_s = "s469"
    /\ height_data' = KeepLast(height_data)
    /\ pc_s' = "s472"
    /\ UNCHANGED <<height, ticks, exc_s, apogee, time_data, pressure_data,
                   shared, rdr, ui, ghost>>

\* A synchronous hand-over: the sampler waits until the main loop has run
\* the render it queued before, and only then queues the next one.
SimulateAfterWaits ==
    /\ pc_s = "s472"
    /\ pending = 0
    /\ IF pc_u = "destroyed"
       THEN /\ exc_s' = "TclError"
            /\ pc_s' = "done"
            /\ pending' = pending
       ELSE /\ pending' = pending + 1
            /\ pc_s' = "s429"
            /\ exc_s' = exc_s
    /\ UNCHANGED <<height, ticks, pc_u, ui_hlen, velocity, shown, lights,
                   ui_exc, shared, hist, rdr, ghost>>

\* Lines 472-474: root.after(0, self.update_display) queues one render on the
\* main loop, then the thread sleeps 100 ms.  Once the root is destroyed the
\* call raises TclError, which ends the thread.
SimulateAfter ==
    /\ pc_s = "s472"
    /\ IF pc_u = "destroyed"
       THEN /\ exc_s' = "TclError"
            /\ pc_s' = "done"
            /\ pending' = pending
       ELSE /\ pending' = pending + 1
            /\ pc_s' = "s429"
            /\ exc_s' = exc_s
    /\ UNCHANGED <<height, ticks, pc_u, ui_hlen, velocity, shown, lights,
                   ui_exc, shared, hist, rdr, ghost>>

SimulateData ==
    \/ SimulateLoop
    \/ SimulateReadAltitude
    \/ SimulateApogee
    \/ SimulateAppendTime
    \/ SimulateAppendPressure
    \/ SimulateAppendHeight
    \/ SimulateCheckLength
    \/ SimulateKeepTime
    \/ SimulateKeepPressure
    \/ SimulateKeepHeight
    \/ SimulateAfter

(***************************************************************************)
(* The Tk main loop: it runs one callback at a time, either a render       *)
(* queued by root.after (update_display, lines 476-516, with update_graphs,*)
(* update_gps_map and update_status_lights) or the WM_DELETE_WINDOW        *)
(* handler (on_closing, lines 676-684).  An exception raised in a callback *)
(* is reported by Tk and ends that callback only.                          *)
(***************************************************************************)
Last(s) == s[Len(s)]

\* The degenerate case reported with the number the program uses elsewhere
\* for "no data".
VelocityNoData(h, n) ==
    IF n > 1 THEN (h[Len(h)][1] - h[Len(h) - 1][1]) * 10 ELSE ErrorValue
\* Lines 496-498, n being len(self.height_data) as line 497 read it:
\* velocity = 0, and with more than one entry the last difference times 10.
Velocity(h, n) ==
    IF n > 1 THEN (h[Len(h)][1] - h[Len(h) - 1][1]) * 10 ELSE 0

\* The main loop takes the next queued render.
RenderStart ==
    /\ pc_u = "idle"
    /\ pending > 0
    /\ pending' = pending - 1
    /\ ui_exc' = ""
    /\ pc_u' = "u479"
    /\ UNCHANGED <<ui_hlen, velocity, shown, lights, shared, hist, rdr, smp,
                   ghost>>

\* Lines 479-494: the error text when serial_error is set; else the data
\* labels, where formatting None with :.1f or :.0f raises TypeError.
UpdateDisplayLabels ==
    /\ pc_u = "u479"
    /\ IF serial_error # None
       THEN shown' = "error" /\ pc_u' = "u526" /\ ui_exc' = ui_exc
       ELSE IF temperature = None
       THEN shown' = shown /\ pc_u' = "idle" /\ ui_exc' = "TypeError"
       ELSE IF height_data # << >> /\ Last(height_data) = None
       THEN shown' = "ok" /\ pc_u' = "idle" /\ ui_exc' = "TypeError"
       ELSE shown' = "ok" /\ pc_u' = "u497" /\ ui_exc' = ui_exc
    /\ ui_hlen' = IF pc_u' = "idle" THEN 0 ELSE ui_hlen
    /\ UNCHANGED <<pending, velocity, lights, shared, hist, rdr, smp,
                   ghost>>

\* Lines 496-497: velocity = 0; len(self.height_data) is read.
UpdateDisplayLen ==
    /\ pc_u = "u497"
    /\ ui_hlen' = Len(height_data)
    /\ velocity' = 0
    /\ pc_u' = "u498"
    /\ UNCHANGED <<pending, shown, lights, ui_exc, shared, hist, rdr, smp,
                   ghost>>

\* Lines 498-499: the last two entries are read and subtracted (TypeError
\* when one of them is None).
UpdateDisplayVelocity ==
    /\ pc_u = "u498"
    /\ IF /\ ui_hlen > 1
          /\ \/ Last(height_data) = None
             \/ height_data[Len(height_data) - 1] = None
       THEN velocity' = velocity /\ pc_u' = "idle" /\ ui_exc' = "TypeError"
       ELSE /\ velocity' = Velocity(height_data, ui_hlen)
            /\ pc_u' = "u526"
            /\ ui_exc' = ui_exc
    /\ ui_hlen' = IF pc_u' = "idle" THEN 0 ELSE ui_hlen
    /\ UNCHANGED <<pending, shown, lights, shared, hist, rdr, smp,
                   ghost>>

\* update_graphs, lines 522-540: plot(self.time_data, self.pressure_data);
\* matplotlib raises ValueError when x and y differ in length.
UpdateGraphsPressure ==
    /\ pc_u = "u526"
    /\ IF Len(time_data) > 0 /\ Len(time_data) # Len(pressure_data)
       THEN pc_u' = "idle" /\ ui_exc' = "ValueError"
       ELSE pc_u' = "u547" /\ ui_exc' = ui_exc
    /\ ui_hlen' = IF pc_u' = "idle" THEN 0 ELSE ui_hlen
    /\ UNCHANGED <<pending, velocity, shown, lights, shared, hist,
                   rdr, smp, ghost>>

\* update_graphs, lines 543-561: plot(self.time_data, self.height_data).
UpdateGraphsHeight ==
    /\ pc_u = "u547"
    /\ IF Len(time_data) > 0 /\ Len(time_data) # Len(height_data)
       THEN pc_u' = "idle" /\ ui_exc' = "ValueError"
       ELSE pc_u' = "u605" /\ ui_exc' = ui_exc
    /\ ui_hlen' = IF pc_u' = "idle" THEN 0 ELSE ui_hlen
    /\ UNCHANGED <<pending, velocity, shown, lights, shared, hist,
                   rdr, smp, ghost>>

\* update_gps_map and update_status_lights (lines 563-640): the telemetry
\* and pressure lights follow serial_error.
UpdateStatusLights ==
    /\ pc_u = "u605"
    /\ lights' = IF serial_error # None THEN "error" ELSE "ok"
    /\ pc_u' = "idle"
    /\ ui_hlen' = IF pc_u' = "idle" THEN 0 ELSE ui_hlen
    /\ UNCHANGED <<pending, velocity, shown, ui_exc, shared, hist,
                   rdr, smp, ghost>>

\* Line 678: the window is closed; on_closing lowers the stop flag.
OnClosingStop ==
    /\ pc_u = "idle"
    /\ simulation_running' = FALSE
    /\ pc_u' = "c681"
    /\ UNCHANGED <<current_pressure, current_altitude, temperature, gps_valid,
                   serial_error>>
    /\ UNCHANGED <<pending, ui_hlen, velocity, shown, lights, ui_exc, hist,
                   rdr, smp, ghost>>

\* Line 681: serial_thread.join(timeout=1) returns when the reader has ended
\* or when the second is over, whichever comes first.
OnClosingJoinSerial ==
    /\ pc_u = "c681"
    /\ pc_u' = "c683"
    /\ UNCHANGED <<pending, ui_hlen, velocity, shown, lights, ui_exc, shared,
                   hist, rdr, smp, ghost>>

\* Line 683: simulation_thread.join(timeout=1), likewise.
OnClosingJoinSimulation ==
    /\ pc_u = "c683"
    /\ pc_u' = "c684"
    /\ UNCHANGED <<pending, ui_hlen, velocity, shown, lights, ui_exc, shared,
                   hist, rdr, smp, ghost>>

\* Line 684: self.root.destroy() ends the main loop.
OnClosingDestroy ==
    /\ pc_u = "c684"
    /\ pc_u' = "destroyed"
    /\ UNCHANGED <<pending, ui_hlen, velocity, shown, lights, ui_exc, shared,
                   hist, rdr, smp, ghost>>

\* Lines 676-684 run once more on the window already destroyed: the flag is
\* lowered again, the joins return, and the second self.root.destroy()
\* raises TclError ("application has been destroyed") out of on_closing.
OnClosingAgain ==
    /\ pc_u = "destroyed"
    /\ simulation_running' = FALSE
    /\ ui_exc' = "TclError"
    /\ UNCHANGED <<current_pressure, current_altitude, temperature, gps_valid,
                   serial_error>>
    /\ UNCHANGED <<pc_u, pending, ui_hlen, velocity, shown, lights, hist,
                   rdr, smp, ghost>>

UpdateDisplay ==
    \/ RenderStart
    \/ UpdateDisplayLabels
    \/ UpdateDisplayLen
    \/ UpdateDisplayVelocity
    \/ UpdateGraphsPressure
    \/ UpdateGraphsHeight
    \/ UpdateStatusLights

OnClosing ==
    \/ OnClosingStop
    \/ OnClosingJoinSerial
    \/ OnClosingJoinSimulation
    \/ OnClosingDestroy
    \/ OnClosingAgain

Next == ReadSerialData \/ SimulateData \/ UpdateDisplay \/ OnClosing

Spec == Init /\ [][Next]_vars

\* Shared State as lines 389-391 leave it after a line whose field count is
\* not 3: the three numeric fields hold None, the port is open, the reader
\* is back at its loop test and the sampler has not ticked yet.
InitUnknown ==
    /\ simulation_running = TRUE
    /\ current_pressure = None
    /\ current_altitude = None
    /\ temperature = None
    /\ gps_valid = FALSE
    /\ serial_error = None
    /\ apogee = 0
    /\ time_data = << >>
    /\ pressure_data = << >>
    /\ height_data = << >>
    /\ pc_r = "r361" /\ rx = <<"bad", "line">> /\ line = Some(<<"bad", "line">>)
    /\ port_open = TRUE /\ opens = 1 /\ exc_r = ""
    /\ pc_s = "s429" /\ height = Some(0) /\ ticks = 0 /\ exc_s = ""
    /\ pc_u = "idle" /\ pending = 0 /\ ui_hlen = 0 /\ velocity = 0
    /\ shown = "" /\ lights = "" /\ ui_exc = ""
    /\ all_time = << >> /\ all_pressure = << >> /\ all_height = << >>

\* The program started with the unknown marker in the shared fields as well.
SpecUnknown == (Init \/ InitUnknown) /\ [][Next]_vars

\* CPython's scheduler lets every runnable thread run again within its
\* switch interval, and readline (timeout 1 s) and both sleeps return: a
\* background thread that can take a step eventually takes one.
FairSpec == Spec /\ WF_vars(ReadSerialData) /\ WF_vars(SimulateData)

(***************************************************************************)
(* Properties.                                                             *)
(***************************************************************************)
\* The greatest element of a finite non-empty set of integers.
MaxOf(S) == CHOOSE m \in S : \A x \in S : x <= m
\* The last N entries of s, all of s when it is shorter.
LastN(s) == [i \in 1..(IF Len(s) > N THEN N ELSE Len(s)) |->
                s[i + (IF Len(s) > N THEN Len(s) - N ELSE 0)]]
\* The sampler is between two iterations: iteration `ticks` has done its
\* appends and truncations (or the thread has left the loop after it).
TickCompleted ==
    /\ pc_s \in {"s472", "s429", "done"}
    /\ exc_s # "TypeError"
    /\ ticks > 0

\* C1: in every reachable state, the states between the statements of one
\* sampler iteration included, each of time_data, pressure_data and
\* height_data has at most N entries.
C1_LengthAtMostN ==
    /\ Len(time_data) <= N
    /\ Len(pressure_data) <= N
    /\ Len(height_data) <= N

\* C2: after k > N completed sampler iterations each history list holds
\* exactly what the last N iterations appended, in arrival order, and the
\* iterations appended one entry each, in order, none skipped or repeated.
C2_LastNInArrivalOrder ==
    (TickCompleted /\ ticks > N) =>
        /\ all_time = [i \in 1..ticks |-> i]
        /\ Len(all_pressure) = ticks
        /\ Len(all_height) = ticks
        /\ time_data = LastN(all_time)
        /\ pressure_data = LastN(all_pressure)
        /\ height_data = LastN(all_height)

\* C2's case: more than N iterations are complete and a truncation has run.
C2_Witness ==
    /\ pc_s = "s429"
    /\ ticks > N
    /\ Len(time_data) = N
    /\ time_data[1] = ticks - N + 1

\* The main loop is at a statement of the render that reads the histories.
RenderReadsHistories == pc_u \in {"u479", "u497", "u498", "u526", "u547"}

\* C3: whenever the render callback reads the histories, the three lists
\* have equal length and entry i of each was appended by the same iteration.
C3_AlignedAtRender ==
    RenderReadsHistories =>
        /\ Len(time_data) = Len(pressure_data)
        /\ Len(time_data) = Len(height_data)
        /\ \A i \in 1..Len(time_data) :
              /\ time_data[i] \in DOMAIN all_pressure
              /\ time_data[i] \in DOMAIN all_height
              /\ pressure_data[i] = all_pressure[time_data[i]]
              /\ height_data[i] = all_height[time_data[i]]

\* The altitudes the sampler has read and recorded so far.
AltitudesRead == {all_height[i][1] : i \in {j \in DOMAIN all_height :
                                              all_height[j] # None}}
\* Iteration `ticks` has read its altitude, updated apogee and recorded it.
ApogeeSettled ==
    /\ pc_s \in {"s466", "s467", "s468", "s469", "s472", "s429", "done"}
    /\ exc_s # "TypeError"

\* C4: apogee is 0 when the session starts, never decreases, and after each
\* iteration is the maximum of 0 and every altitude read so far.
C4_ApogeeRunningMax ==
    /\ []((ticks = 0 /\ pc_s = "s429") => apogee = 0)
    /\ [](ApogeeSettled => apogee = MaxOf({0} \cup AltitudesRead))
    /\ [][apogee' >= apogee]_vars

\* C4's case: an iteration has read an altitude other than the initial one
\* and is complete.
C4_Witness ==
    /\ pc_s = "s429"
    /\ ticks > 0
    /\ \E i \in DOMAIN all_height : all_height[i] # Some(0)
    /\ apogee = MaxOf({0} \cup AltitudesRead)

\* The reader finishes lines 365-397 for the bytes rx in this step.
LineProcessed == pc_r = "r365d" /\ pc_r' # "r365d"

C6_WellFormedStored ==
    [][(LineProcessed /\ rx \in WellFormedLines) =>
          /\ current_pressure' = float(rx[1])
          /\ current_altitude' = float(rx[2])
          /\ temperature' = float(rx[3])
          /\ serial_error' = None]_vars

\* The render has computed the velocity of lines 496-499.
VelocityComputed == pc_u = "u526" /\ shown = "ok" /\ ui_exc = ""

\* C7: the velocity the render computes is exactly 0 whenever the altitude
\* history holds fewer than 2 entries, and it is always a number (the
\* computation is a difference times 10: nothing is divided).
C7_VelocityZeroBelowTwo ==
    /\ velocity \in Int
    /\ (pc_u = "u498" /\ ui_hlen < 2) => velocity = 0
    /\ (VelocityComputed /\ ui_hlen < 2) => velocity = 0

\* C7's case: a render has computed the velocity from a history of fewer
\* than 2 entries.
C7_Witness == VelocityComputed /\ ui_hlen < 2 /\ Len(height_data) >= 1

\* The reader is in the SerialException handler or past it.
InErrorPath == pc_r \in {"r403", "r405", "r406", "r407"}
\* The reader has left its loop for good.
ReaderLeaving == pc_r \in {"r403", "r405", "r406", "r407", "r408", "done"}

\* C8: when the open fails or the port raises an I/O error, the reader sets
\* serial_error and (under fair scheduling) terminates; the port is opened
\* at most once, the reader never returns to its loop, serial_error stays
\* set ever after and every render that starts later shows the error status.
C8_ErrorIsFinal ==
    /\ InErrorPath ~> (pc_r = "done")
    /\ [](opens <= 1)
    /\ []((pc_r \in {"r405", "r406", "r407"}) => serial_error # None)
    /\ [][(pc_r = "r403" /\ pc_r' # "r403") => serial_error' # None]_vars
    /\ [][ReaderLeaving => ReaderLeaving']_vars
    /\ [][serial_error # None => serial_error' # None]_vars
    /\ [][(pc_u = "u479" /\ pc_u' # "u479" /\ serial_error # None) =>
             (shown' = "error" /\ pc_u' = "u526")]_vars
    /\ [][(pc_u = "u605" /\ pc_u' # "u605" /\ serial_error # None) =>
             lights' = "error"]_vars

\* C8's case: the reader has failed and ended, and a later render has shown
\* the error on the labels and on the lights.
C8_Witness ==
    /\ pc_r = "done"
    /\ serial_error # None
    /\ port_open = FALSE
    /\ shown = "error"
    /\ lights = "error"
    /\ pc_u = "idle"

\* C9: the reader never stores the error number in current_pressure,
\* current_altitude or temperature, and the error number never enters the
\* pressure or altitude history.  (No line on the model's wire carries
\* ErrorValue, so the only place it can come from is the error path.)
C9_NoErrorNumber ==
    /\ current_pressure # Some(ErrorValue)
    /\ current_altitude # Some(ErrorValue)
    /\ temperature # Some(ErrorValue)
    /\ \A i \in DOMAIN pressure_data : pressure_data[i] # Some(ErrorValue)
    /\ \A i \in DOMAIN height_data : height_data[i] # Some(ErrorValue)

\* C10: once simulation_running is False, each loop leaves at its next test
\* of the flag without starting another iteration, and under fair
\* scheduling both threads terminate.
C10_StopFlagEndsBoth ==
    /\ [][(~simulation_running /\ pc_r = "r361") =>
             pc_r' \in {"r361", "r408"}]_vars
    /\ [][(~simulation_running /\ pc_s = "s429") =>
             pc_s' \in {"s429", "done"}]_vars
    /\ [][~simulation_running => ~simulation_running']_vars
    /\ (~simulation_running) ~> (pc_r = "done" /\ pc_s = "done")

\* C10's case: the flag is down and both threads have left their loops by
\* observing it.
C10_Witness ==
    /\ ~simulation_running
    /\ pc_r = "done" /\ exc_r = "" /\ serial_error = None
    /\ pc_s = "done" /\ exc_s = ""

\* C11: on every path by which the reader thread ends (stop flag seen,
\* serial I/O error, any other exception raised while a line is processed)
\* the port it opened is closed: the reader is never ended with its port
\* still open.
C11_PortClosedAtEnd == (pc_r = "done") => ~port_open

\* C11's case: the port was opened and the thread was ended by an exception
\* that no clause catches.
C11_Witness ==
    /\ pc_r = "done"
    /\ opens = 1
    /\ exc_r \in {"NameError", "UnboundLocalError"}
    /\ ~port_open

\* C12: when on_closing returns, both background threads have stopped and
\* the serial port is closed; it never completes while the reader or the
\* sampler is still running.
C12_ShutdownWaits ==
    (pc_u = "destroyed") =>
        /\ pc_r = "done"
        /\ pc_s = "done"
        /\ ~port_open

\* C13: on_closing is idempotent: a second invocation raises no error and
\* leaves the state as the first invocation left it.
C13_SecondCloseIsNoOp == (pc_u = "destroyed") => (ui_exc # "TclError")

\* The (pressure, altitude) pairs of the Telemetry Samples the reader can
\* publish: the constructor's values, a well-formed line, the unknown
\* marker, the error sentinel.
SamplePairs ==
    {<<Some(0), Some(0)>>, <<None, None>>,
     <<Some(ErrorValue), Some(ErrorValue)>>}
        \cup {<<float(l[1]), float(l[2])>> : l \in WellFormedLines}

\* C14: the pressure and the altitude that one sampler tick appends at the
\* same index come from the same Telemetry Sample (no torn read of the
\* shared fields).
C14_NoTornRead ==
    \A i \in DOMAIN all_pressure :
        i \in DOMAIN all_height =>
            <<all_pressure[i], all_height[i]>> \in SamplePairs

\* C15: after a line that fails to decode or to parse, the reader thread is
\* still running: it goes back to its loop test and does not end because of
\* the content of a line.
C15_BadLineNotFatal ==
    [][(LineProcessed /\ rx \in BadFieldLines \cup {Undecodable})
          => pc_r' = "r361"]_vars

SharedFields ==
    <<current_pressure, current_altitude, temperature, gps_valid, serial_error>>

\* C17: the reader is the only writer of Shared State: no step of the
\* sampler or of the UI thread changes current_pressure, current_altitude,
\* temperature, gps_valid or serial_error, and no step of the reader changes
\* apogee or the three history lists.
C17_ReaderSoleWriter ==
    [][/\ (smp' # smp \/ ui' # ui) => UNCHANGED SharedFields
       /\ (rdr' # rdr) => UNCHANGED hist]_vars

\* The reader has published the error sample, the sampler has recorded it
\* and a render has shown it.
C17_Witness ==
    /\ pc_r = "done"
    /\ current_altitude = Some(ErrorValue)
    /\ height_data # << >>
    /\ Last(height_data) = Some(ErrorValue)
    /\ shown = "error"
    /\ lights = "error"

\* The sampler has a statement to run: it has not ended, and it is not held
\* at its loop test by the bound on the iterations of a behaviour.
SamplerRunning ==
    /\ pc_s # "done"
    /\ (pc_s = "s429" /\ simulation_running) => TickAllowed

\* C18: a sampler tick never waits for the UI: whatever the main loop has or
\* has not run, the sampler's next statement is enabled, and the statement
\* of line 472 on a live root only adds one render request to the queue and
\* returns to the loop test.
C18_SamplerNeverWaits ==
    /\ [](SamplerRunning => ENABLED SimulateData)
    /\ [][(pc_s = "s472" /\ pc_s' # pc_s /\ pc_u # "destroyed")
             => (pending' = pending + 1 /\ pc_s' = "s429" /\ UNCHANGED hist)]_vars

\* Every tick of the behaviour is recorded and queued while no render has
\* run yet.
C18_Witness ==
    /\ ticks = MaxTicks
    /\ Len(time_data) = MaxTicks
    /\ pending = MaxTicks
    /\ pc_s = "s429"
    /\ pc_u = "idle"
    /\ shown = ""

\* C19: the sampler never schedules a render after the root window has been
\* destroyed: every execution of root.after on line 472 happens before
\* root.destroy().
C19_AfterBeforeDestroy ==
    [][(pc_s = "s472" /\ pc_s' # pc_s) => pc_u # "destroyed"]_vars

====
